---- MODULE Spec2Model ----
(***************************************************************************)
(* Model of the IP Nexus network measurement and classification engine:    *)
(*   - the vpn-detect edge function (supabase/functions/vpn-detect),       *)
(*   - the SpeedTest utility (utils/speedTest),                            *)
(*   - the Index page orchestration (fetchIPData, detectVPN).              *)
(* JavaScript values are modelled as tagged records so that strict         *)
(* equality (=== true), truthiness (a ? b : c, a || b) and optional        *)
(* chaining (a?.b) keep the meaning they have in the source.               *)
(***************************************************************************)
EXTENDS Integers, Sequences, FiniteSets, TLC

VARIABLES
    vdReq,        \* vpn-detect: the request being served
    vdUpstream,   \* vpn-detect: what the ipwho.is call produced for it
    vdResp,       \* vpn-detect: the Response returned, or NoResponse
    stPc,         \* SpeedTest.runFullTest: where the run is
    stPing,       \* SpeedTest: const ping (Unset until measurePing resolves)
    stDown,       \* SpeedTest: const downloadSpeed
    stUp,         \* SpeedTest: const uploadSpeed
    stProgress,   \* SpeedTest: the steps handed to onProgress, in order
    stResult,     \* SpeedTest: the SpeedTestResult returned, or Unset; it is
                  \* what runSpeedTest hands to setSpeedTest
    dlNow,        \* measureDownloadSpeed: performance.now() - startTime, in 0.1 ms
    dlBytes,      \* measureDownloadSpeed: receivedBytes
    dlReads,      \* measureDownloadSpeed: reader.read() calls that resolved
    dlCancelled,  \* measureDownloadSpeed: reader.cancel() was called
    pingProbe,    \* what the latency probe's fetch did: [outcome, dt]
    dlOutcome,    \* how measureDownloadSpeed was left: "none", "rejects",
                  \* "no_body", "read_error" or "computed"
    speedTestLoading,  \* Index: useState speedTestLoading
    speedToasts,       \* titles of the toasts runSpeedTest has raised
    mounted,      \* Index: the mount effect has run
    loading,      \* Index: useState loading
    data,         \* Index: useState data (LocationData)
    vpnData,      \* Index: useState vpnData (null or the function's answer,
                  \* tagged with the address it was requested for)
    vpnLoading,   \* Index: useState vpnLoading
    fPc,          \* fetchIPData: the await it is suspended at, or "idle"
    ip4Data,      \* fetchIPData: const ip4Data
    ip6Data,      \* fetchIPData: const ip6Data
    vpnInFlight,  \* detectVPN: arguments of the invocations not yet settled
    toasts,       \* titles of the toasts raised since the current cycle began
    cycle         \* what the current cycle's requests did (observation)

vdVars == <<vdReq, vdUpstream, vdResp>>
stVars == <<stPc, stPing, stDown, stUp, stProgress, stResult,
            dlNow, dlBytes, dlReads, dlCancelled, pingProbe, dlOutcome,
            speedTestLoading, speedToasts>>
ixVars == <<mounted, loading, data, vpnData, vpnLoading, fPc, ip4Data, ip6Data,
            vpnInFlight, toasts, cycle>>

----------------------------------------------------------------------------
(* JavaScript values *)

Undef == [t |-> "undefined"]
Null == [t |-> "null"]
Bool(b) == [t |-> "boolean", b |-> b]
Num(n) == [t |-> "number", n |-> n]
Str(s) == [t |-> "string", s |-> s]
Obj(f) == [t |-> "object", f |-> f]

JsTrue == Bool(TRUE)
JsFalse == Bool(FALSE)

\* ToBoolean: what `v ? a : b`, `v || w`, `!v` and `if (v)` test.
Truthy(v) ==
    CASE v.t = "undefined" -> FALSE
      [] v.t = "null" -> FALSE
      [] v.t = "boolean" -> v.b
      [] v.t = "number" -> v.n # 0
      [] v.t = "string" -> v.s # ""
      [] OTHER -> TRUE

\* v === true
StrictTrue(v) == v.t = "boolean" /\ v.b

\* o?.k : undefined when o is undefined or null, or when o has no property k.
OptGet(o, k) ==
    IF o.t = "object" /\ k \in DOMAIN o.f THEN o.f[k] ELSE Undef

\* a || b
OrElse(a, b) == IF Truthy(a) THEN a ELSE b

----------------------------------------------------------------------------
(* vpn-detect edge function *)

\* Values a provider may send for one signal: absent, booleans, and the
\* non-boolean encodings (1, "") JSON allows.
SignalValues == {Undef, JsTrue, JsFalse, Num(1), Str("")}

SecurityKeys == {"is_proxy", "is_vpn", "is_tor", "is_relay"}

SecurityObjects ==
    {Undef} \cup {Obj(f) : f \in [SecurityKeys -> SignalValues]}

ConnectionObjects ==
    {Undef} \cup
    {Obj([is_proxy |-> p, isp_hosting |-> h, org |-> o]) :
        p \in SignalValues, h \in {Undef, JsTrue}, o \in {Undef, Str("AS64500 Example")}}

\* Outcomes of `fetch(http://ipwho.is/<ip>)` followed by `response.json()`.
Upstreams ==
    {[kind |-> "fetch_rejects"], [kind |-> "invalid_json"], [kind |-> "json", data |-> Null]}
    \cup {[kind |-> "json", data |-> Obj([security |-> s, connection |-> c])] :
            s \in SecurityObjects, c \in ConnectionObjects}

NoUpstream == [kind |-> "none"]
NoResponse == [status |-> 0]

Requests ==
    {[method |-> "OPTIONS", body |-> "none"],
     [method |-> "POST", body |-> "invalid_json"],
     [method |-> "POST", body |-> "no_ip"],
     [method |-> "POST", body |-> "ip"]}

\* Faulty variant of isVpnOf: the connection-layer proxy signal is left out.
isVpnOf_SecurityOnly(d) ==
    \/ StrictTrue(OptGet(OptGet(d, "security"), "is_proxy"))
    \/ StrictTrue(OptGet(OptGet(d, "security"), "is_vpn"))
    \/ StrictTrue(OptGet(OptGet(d, "security"), "is_tor"))
    \/ StrictTrue(OptGet(OptGet(d, "security"), "is_relay"))

isVpnOf(d) ==
    \/ StrictTrue(OptGet(OptGet(d, "security"), "is_proxy"))
    \/ StrictTrue(OptGet(OptGet(d, "security"), "is_vpn"))
    \/ StrictTrue(OptGet(OptGet(d, "security"), "is_tor"))
    \/ StrictTrue(OptGet(OptGet(d, "security"), "is_relay"))
    \/ StrictTrue(OptGet(OptGet(d, "connection"), "is_proxy"))

\* Faulty variant of vpnTypeOf: the vpn flag is tested before the tor flag.
vpnTypeOf_VpnFirst(d) ==
    IF Truthy(OptGet(OptGet(d, "security"), "is_vpn")) THEN "VPN"
    ELSE IF Truthy(OptGet(OptGet(d, "security"), "is_tor")) THEN "Tor Network"
    ELSE IF Truthy(OptGet(OptGet(d, "security"), "is_proxy")) THEN "Proxy"
    ELSE IF Truthy(OptGet(OptGet(d, "security"), "is_relay")) THEN "Relay"
    ELSE "None Detected"

vpnTypeOf(d) ==
    IF Truthy(OptGet(OptGet(d, "security"), "is_tor")) THEN "Tor Network"
    ELSE IF Truthy(OptGet(OptGet(d, "security"), "is_vpn")) THEN "VPN"
    ELSE IF Truthy(OptGet(OptGet(d, "security"), "is_proxy")) THEN "Proxy"
    ELSE IF Truthy(OptGet(OptGet(d, "security"), "is_relay")) THEN "Relay"
    ELSE "None Detected"

ErrorResponse(code) == [status |-> code, kind |-> "error"]

\* The whole handler: the Response for request req when the upstream call
\* produces up.  An upstream outcome is consumed only on the path that
\* reaches the fetch.
Handler(req, up) ==
    IF req.method = "OPTIONS" THEN [status |-> 200, kind |-> "preflight"]
    ELSE IF req.body = "invalid_json" THEN ErrorResponse(500)
    ELSE IF req.body = "no_ip" THEN ErrorResponse(400)
    ELSE IF up.kind # "json" THEN ErrorResponse(500)
    ELSE IF up.data.t # "object" THEN ErrorResponse(500)
    ELSE [status |-> 200, kind |-> "result",
          isVpn |-> isVpnOf(up.data),
          vpnType |-> vpnTypeOf(up.data),
          hosting |-> OrElse(OptGet(OptGet(up.data, "connection"), "isp_hosting"), JsFalse),
          org |-> OrElse(OptGet(OptGet(up.data, "connection"), "org"), Str("Unknown"))]

ReachesFetch(req) == req.method = "POST" /\ req.body = "ip"

VdIdle ==
    /\ vdReq \in Requests
    /\ vdUpstream = NoUpstream
    /\ vdResp = NoResponse

Serve ==
    /\ vdResp = NoResponse
    /\ \E up \in Upstreams :
         /\ vdUpstream' = IF ReachesFetch(vdReq) THEN up ELSE NoUpstream
         /\ vdResp' = Handler(vdReq, up)
    /\ UNCHANGED vdReq
    /\ UNCHANGED <<stVars, ixVars>>

NextRequest ==
    /\ vdResp # NoResponse
    /\ vdReq' \in Requests
    /\ vdUpstream' = NoUpstream
    /\ vdResp' = NoResponse
    /\ UNCHANGED <<stVars, ixVars>>

----------------------------------------------------------------------------
(* SpeedTest (utils/speedTest) *)

\* Numbers the estimator returns.  A finite number is kept in hundredths
\* (Fixed(3815) is 38.15, Fixed(-100) is -1); NaN and Infinity are what
\* IEEE division by zero yields.
Fixed(h) == [t |-> "fixed", h |-> h]
NaN == [t |-> "NaN"]
Infinity == [t |-> "Infinity"]
Unset == [t |-> "unset"]

TEST_DURATION == 5000
dataSize == 1024 * 1024

\* Bound on the chunks one response body delivers.
MaxReads == 3

\* Elapsed wall clock of one await, in tenths of a millisecond: the same
\* timer tick, 120 ms, 2.6 s, 5.2 s (longer than the download ceiling).
Dts == {0, 1200, 26000, 52000}
\* Round trips of the latency probe, in tenths of a millisecond.
PingDts == {0, 4, 5, 374}
\* Byte lengths of the chunks reader.read() delivers.
ChunkSizes == {1000, 65536}

RECURSIVE GCD(_, _)
GCD(a, b) == IF b = 0 THEN a ELSE GCD(b, a % b)

\* Math.round(n / d) for n >= 0, d > 0: halves round up.
RoundDiv(n, d) == (2 * n + d) \div (2 * d)

\* Math.round(endTime - startTime), the difference being ticks / 10 ms.
RoundMs(ticks) == Fixed(100 * RoundDiv(ticks, 10))

\* Math.round(((bytes * 8) / (ticks / 10000)) / (1024 * 1024) * 100) / 100.
\* In hundredths that is round(bytes * 15625 / (ticks * 2048)); the common
\* power of two is divided out first to keep the product small.
SpeedMbps(bytes, ticks) ==
    IF ticks = 0
    THEN IF bytes = 0 THEN NaN ELSE Infinity
    ELSE LET g == GCD(bytes, 2048)
         IN  Fixed(RoundDiv((bytes \div g) * 15625, ticks * (2048 \div g)))

\* measurePing, given the outcome of the HEAD fetch.  fetch rejects on a
\* network error only; the response status is not read.
PingResult(outcome, dt) ==
    IF outcome = "rejects" THEN Fixed(-100) ELSE RoundMs(dt)

\* The value measureDownloadSpeed returns once the read loop is left.
DownloadResult(bytes, ticks) == SpeedMbps(bytes, ticks)

\* crypto.getRandomValues(data) throws QuotaExceededError for a view of more
\* than 65536 bytes.
GetRandomValuesThrows(n) == n > 65536

\* measureUploadSpeed, given the outcome of the POST fetch.
UploadResult(outcome, dt) ==
    IF GetRandomValuesThrows(dataSize) THEN Fixed(-100)
    ELSE IF outcome = "rejects" THEN Fixed(-100)
    ELSE SpeedMbps(dataSize, dt)

NoProbe == [outcome |-> "none", dt |-> 0]

StIdle ==
    /\ stPc = "idle"
    /\ stPing = Unset /\ stDown = Unset /\ stUp = Unset
    /\ stProgress = <<>>
    /\ stResult = Unset
    /\ dlNow = 0 /\ dlBytes = 0 /\ dlReads = 0 /\ dlCancelled = FALSE
    /\ pingProbe = NoProbe
    /\ dlOutcome = "none"
    /\ speedTestLoading = FALSE
    /\ speedToasts = {}

\* runSpeedTest (the Run Test button, disabled while speedTestLoading) calls
\* runFullTest: the first progress step is emitted and measurePing starts.
RunFullTest ==
    /\ stPc \in {"idle", "done"}
    /\ ~speedTestLoading
    /\ speedTestLoading' = TRUE
    /\ UNCHANGED speedToasts
    /\ stPc' = "ping"
    /\ stPing' = Unset /\ stDown' = Unset /\ stUp' = Unset
    /\ stProgress' = <<"Measuring ping...">>
    /\ stResult' = Unset
    /\ dlNow' = 0 /\ dlBytes' = 0 /\ dlReads' = 0 /\ dlCancelled' = FALSE
    /\ pingProbe' = NoProbe
    /\ dlOutcome' = "none"
    /\ UNCHANGED <<vdVars, ixVars>>

\* measurePing resolves; runFullTest emits the next step and calls
\* measureDownloadSpeed, which issues its fetch.
MeasurePing ==
    /\ stPc = "ping"
    /\ \E outcome \in {"rejects", "status_204", "status_500"}, dt \in PingDts :
         /\ stPing' = PingResult(outcome, dt)
         /\ pingProbe' = [outcome |-> outcome, dt |-> dt]
    /\ stProgress' = Append(stProgress, "Testing download speed...")
    /\ stPc' = "download_fetch"
    /\ UNCHANGED <<stDown, stUp, stResult, dlNow, dlBytes, dlReads, dlCancelled, dlOutcome>>
    /\ UNCHANGED <<speedTestLoading, speedToasts>>
    /\ UNCHANGED <<vdVars, ixVars>>

\* measureDownloadSpeed leaves through its catch: -1, and runFullTest goes on
\* to the upload phase.
DownloadFails(how) ==
    /\ dlOutcome' = how
    /\ stDown' = Fixed(-100)
    /\ stProgress' = Append(stProgress, "Testing upload speed...")
    /\ stPc' = "upload"

\* The download fetch settles: it rejects, or resolves with a response whose
\* body is null (no reader), or resolves with a readable body.
DownloadFetch ==
    /\ stPc = "download_fetch"
    /\ \E outcome \in {"rejects", "no_body", "stream"}, dt \in Dts :
         IF outcome = "stream"
         THEN /\ dlNow' = dlNow + dt
              /\ stPc' = "download_read"
              /\ UNCHANGED <<stDown, stProgress, dlOutcome>>
         ELSE /\ DownloadFails(outcome)
              /\ UNCHANGED dlNow
    /\ UNCHANGED <<stPing, stUp, stResult, dlBytes, dlReads, dlCancelled, pingProbe>>
    /\ UNCHANGED <<speedTestLoading, speedToasts>>
    /\ UNCHANGED <<vdVars, ixVars>>

\* Faulty variant of Expired: the ceiling is compared in the wrong unit
\* (seconds against milliseconds), so it is never reached in time.
Expired_WrongUnit(now) == now > TEST_DURATION * 1000 * 10

\* performance.now() - startTime > this.TEST_DURATION, now being in 0.1 ms.
Expired(now) == now > TEST_DURATION * 10

\* One pass of the read loop: reader.read() settles, the bytes are counted,
\* the ceiling is tested, and the loop is left when done or past the ceiling.
DownloadRead ==
    /\ stPc = "download_read"
    /\ \E kind \in {"chunk", "end", "error"}, len \in ChunkSizes, dt \in Dts :
         /\ kind = "chunk" => dlReads < MaxReads
         /\ kind # "chunk" => len = 1000
         /\ IF kind = "error"
            THEN /\ DownloadFails("read_error")
                 /\ UNCHANGED <<dlNow, dlBytes, dlReads, dlCancelled>>
            ELSE LET now == dlNow + dt
                     bytes == IF kind = "chunk" THEN dlBytes + len ELSE dlBytes
                     expired == Expired(now)
                 IN  /\ dlNow' = now
                     /\ dlBytes' = bytes
                     /\ dlReads' = dlReads + 1
                     /\ dlCancelled' = expired
                     /\ IF expired \/ kind = "end"
                        THEN /\ dlOutcome' = "computed"
                             /\ stDown' = DownloadResult(bytes, now)
                             /\ stProgress' = Append(stProgress, "Testing upload speed...")
                             /\ stPc' = "upload"
                        ELSE UNCHANGED <<stDown, stProgress, stPc, dlOutcome>>
    /\ UNCHANGED <<stPing, stUp, stResult, pingProbe>>
    /\ UNCHANGED <<speedTestLoading, speedToasts>>
    /\ UNCHANGED <<vdVars, ixVars>>

\* What runSpeedTest does with the settled runFullTest promise: a sample is
\* stored and announced, a rejection raises the failure toast.
SpeedTestNotice(rejected) ==
    IF rejected THEN "Speed Test Failed" ELSE "Speed Test Complete"

\* measureUploadSpeed resolves and runFullTest returns the assembled sample;
\* runSpeedTest stores it, raises its toast and clears speedTestLoading.
\* No measure function lets an exception out, so runFullTest never rejects.
MeasureUpload ==
    /\ stPc = "upload"
    /\ \E outcome \in {"rejects", "status_200"}, dt \in Dts :
         LET up == UploadResult(outcome, dt)
             result == [downloadSpeed |-> stDown, uploadSpeed |-> up, ping |-> stPing]
         IN  /\ stUp' = up
             /\ stResult' = result
    /\ speedToasts' = speedToasts \cup {SpeedTestNotice(FALSE)}
    /\ speedTestLoading' = FALSE
    /\ stPc' = "done"
    /\ UNCHANGED <<stPing, stDown, stProgress, dlNow, dlBytes, dlReads, dlCancelled,
                   pingProbe, dlOutcome>>
    /\ UNCHANGED <<vdVars, ixVars>>

NextSpeed == RunFullTest \/ MeasurePing \/ DownloadFetch \/ DownloadRead \/ MeasureUpload

----------------------------------------------------------------------------
(* Index page: fetchIPData and detectVPN *)

\* Bound on the detectVPN invocations in flight at once.
MaxInFlight == 2

InvalidJson == [t |-> "invalid_json"]
Rejects == [net |-> "rejects"]
Resp(status, body) == [net |-> "ok", status |-> status, body |-> body]
NotRequested == [net |-> "none"]

EmptyObj == Obj(<<>>)

\* `await fetch(url)` followed by `await response.json()` throws when fetch
\* rejects (network error) or the body is not JSON; the status is never read.
FetchJsonThrows(r) == r.net = "rejects" \/ r.body = InvalidJson

Ip4Addresses == {"203.0.113.7", "198.51.100.9"}
Ip6Addresses == {"2001:db8::7"}

\* What api.ipify.org may do: a network error, an address, a JSON answer
\* without an ip property.
Ip4Outcomes ==
    {Rejects, Resp(429, EmptyObj)}
    \cup {Resp(200, Obj([ip |-> Str(a)])) : a \in Ip4Addresses}

\* What api64.ipify.org may do: an error page, an address, a JSON answer
\* without an ip property.
Ip6Outcomes ==
    {Resp(500, InvalidJson), Resp(429, EmptyObj)}
    \cup {Resp(200, Obj([ip |-> Str(a)])) : a \in Ip6Addresses}

\* Answers of ipwho.is: a network error, a full record, an error record with
\* a non-success status, an error page.
PrimaryBody ==
    Obj([country |-> Str("Utopia"), region |-> Str("North"), city |-> Str("Amaurot"),
         connection |-> Obj([isp |-> Str("Example Net")]),
         latitude |-> Num(51), longitude |-> Num(7)])

ErrorBody == Obj([success |-> JsFalse, message |-> Str("rate limited")])

LocationOutcomes ==
    {Rejects, Resp(200, PrimaryBody), Resp(500, ErrorBody), Resp(502, InvalidJson)}

\* Answers of ipapi.co.
FallbackBody ==
    Obj([country_name |-> Str("Utopia"), country |-> Str("UT"), region |-> Str("North"),
         city |-> Str(""), org |-> Str("Example Net"),
         latitude |-> Num(0), longitude |-> Num(7)])

FallbackOutcomes ==
    {Rejects, Resp(200, FallbackBody), Resp(429, ErrorBody)}

\* The location sentinel, the em dash string of the source.
Dash == Str("-")

\* The object literal of newData.  `timestamp` is the wall clock and is not
\* modelled beyond being a string.
NewData(i4, i6, loc) ==
    Obj([ipv4 |-> OrElse(OptGet(i4, "ip"), Str("Unavailable")),
         ipv6 |-> OrElse(OptGet(i6, "ip"), Str("Unavailable")),
         country |-> OrElse(OrElse(OptGet(loc, "country_name"), OptGet(loc, "country")),
                            Dash),
         region |-> OrElse(OrElse(OptGet(loc, "region"), OptGet(loc, "region_name")),
                           Dash),
         city |-> OrElse(OptGet(loc, "city"), Dash),
         isp |-> OrElse(OrElse(OptGet(loc, "org"),
                               OptGet(OptGet(loc, "connection"), "isp")),
                        OrElse(OptGet(loc, "isp"), Dash)),
         lat |-> OrElse(OptGet(loc, "latitude"), OptGet(loc, "lat")),
         lon |-> OrElse(OptGet(loc, "longitude"), OptGet(loc, "lon")),
         timestamp |-> Str("now")])

\* ip4Data.ip / ip6Data.ip is a TypeError when the parsed JSON is null.
NewDataThrows(i4, i6) == i4.t \in {"null", "undefined"} \/ i6.t \in {"null", "undefined"}

NoCycle ==
    [ip4 |-> NotRequested, ip6 |-> NotRequested, location |-> NotRequested,
     fallback |-> NotRequested, ip6Requests |-> 0, locationRequests |-> 0,
     fallbackRequests |-> 0, detectCalls |-> {}, setData |-> FALSE]

IxIdle ==
    /\ mounted = FALSE
    /\ loading = TRUE
    /\ data = EmptyObj
    /\ vpnData = Null
    /\ vpnLoading = FALSE
    /\ fPc = "idle"
    /\ ip4Data = Undef
    /\ ip6Data = Undef
    /\ vpnInFlight = <<>>
    /\ toasts = {}
    /\ cycle = NoCycle

\* detectVPN(ip) up to its await: setVpnLoading(true) and the invocation.
StartDetectVPN(ip) ==
    /\ vpnLoading' = TRUE
    /\ vpnInFlight' = Append(vpnInFlight, ip)

\* fetchIPData is called, by the mount effect or by the Refresh button (which
\* is disabled while loading): setLoading(true) and the IPv4 request.
FetchIPData ==
    /\ fPc = "idle"
    /\ ~mounted \/ ~loading
    /\ Len(vpnInFlight) < MaxInFlight
    /\ mounted' = TRUE
    /\ loading' = TRUE
    /\ fPc' = "ip4"
    /\ ip4Data' = Undef
    /\ ip6Data' = Undef
    /\ toasts' = {}
    /\ cycle' = NoCycle
    /\ UNCHANGED <<data, vpnData, vpnLoading, vpnInFlight>>
    /\ UNCHANGED <<vdVars, stVars>>

\* The outer catch and finally of fetchIPData: the error toast,
\* setLoading(false).
CatchFetchError ==
    /\ toasts' = toasts \cup {"Error"}
    /\ loading' = FALSE
    /\ fPc' = "idle"
    /\ UNCHANGED <<data, vpnLoading, vpnInFlight>>

\* The arguments fetchIPData hands to detectVPN (line 78-80).
DetectCallsOf(i4, i6, loc) ==
    IF ~NewDataThrows(i4, i6) /\ Truthy(NewData(i4, i6, loc).f.ipv4)
    THEN {NewData(i4, i6, loc).f.ipv4}
    ELSE {}

\* fetchIPData from `const newData` to the end of finally.
FinishCycle(loc) ==
    IF NewDataThrows(ip4Data, ip6Data)
    THEN CatchFetchError
    ELSE LET newData == NewData(ip4Data, ip6Data, loc)
         IN  /\ data' = newData
             /\ IF Truthy(newData.f.ipv4)
                THEN StartDetectVPN(newData.f.ipv4)
                ELSE UNCHANGED <<vpnLoading, vpnInFlight>>
             /\ loading' = FALSE
             /\ fPc' = "idle"
             /\ UNCHANGED toasts

\* The IPv4 request settles and is parsed; the IPv6 request is issued.
Ip4Settles ==
    /\ fPc = "ip4"
    /\ \E r \in Ip4Outcomes :
         IF FetchJsonThrows(r)
         THEN /\ CatchFetchError
              /\ cycle' = [cycle EXCEPT !.ip4 = r]
              /\ UNCHANGED ip4Data
         ELSE /\ ip4Data' = r.body
              /\ fPc' = "ip6"
              /\ cycle' = [cycle EXCEPT !.ip4 = r, !.ip6Requests = @ + 1]
              /\ UNCHANGED <<data, loading, toasts, vpnLoading, vpnInFlight>>
    /\ UNCHANGED <<mounted, vpnData, ip6Data>>
    /\ UNCHANGED <<vdVars, stVars>>

\* The IPv6 request settles and is parsed; the ipwho.is request is issued.
Ip6Settles ==
    /\ fPc = "ip6"
    /\ \E r \in Ip6Outcomes :
         IF FetchJsonThrows(r)
         THEN /\ CatchFetchError
              /\ cycle' = [cycle EXCEPT !.ip6 = r]
              /\ UNCHANGED ip6Data
         ELSE /\ ip6Data' = r.body
              /\ fPc' = "location"
              /\ cycle' = [cycle EXCEPT !.ip6 = r, !.locationRequests = @ + 1]
              /\ UNCHANGED <<data, loading, toasts, vpnLoading, vpnInFlight>>
    /\ UNCHANGED <<mounted, vpnData, ip4Data>>
    /\ UNCHANGED <<vdVars, stVars>>

\* The ipwho.is request settles: the inner catch issues the ipapi.co request,
\* otherwise the record is built from the parsed answer.
LocationSettles ==
    /\ fPc = "location"
    /\ \E r \in LocationOutcomes :
         IF FetchJsonThrows(r)
         THEN /\ fPc' = "fallback"
              /\ cycle' = [cycle EXCEPT !.location = r, !.fallbackRequests = @ + 1]
              /\ UNCHANGED <<data, loading, toasts, vpnLoading, vpnInFlight>>
         ELSE /\ FinishCycle(r.body)
              /\ cycle' = [cycle EXCEPT !.location = r,
                                        !.setData = ~NewDataThrows(ip4Data, ip6Data),
                                        !.detectCalls = DetectCallsOf(ip4Data, ip6Data, r.body)]
    /\ UNCHANGED <<mounted, vpnData, ip4Data, ip6Data>>
    /\ UNCHANGED <<vdVars, stVars>>

\* The ipapi.co request settles: a failure goes to the outer catch.
FallbackSettles ==
    /\ fPc = "fallback"
    /\ \E r \in FallbackOutcomes :
         IF FetchJsonThrows(r)
         THEN /\ CatchFetchError
              /\ cycle' = [cycle EXCEPT !.fallback = r]
         ELSE /\ FinishCycle(r.body)
              /\ cycle' = [cycle EXCEPT !.fallback = r,
                                        !.setData = ~NewDataThrows(ip4Data, ip6Data),
                                        !.detectCalls = DetectCallsOf(ip4Data, ip6Data, r.body)]
    /\ UNCHANGED <<mounted, vpnData, ip4Data, ip6Data>>
    /\ UNCHANGED <<vdVars, stVars>>

\* The VPN card's refresh button: data.ipv4 && detectVPN(data.ipv4), disabled
\* while vpnLoading or when data.ipv4 is falsy.
ClickVpnRefresh ==
    /\ ~vpnLoading
    /\ Truthy(OptGet(data, "ipv4"))
    /\ Len(vpnInFlight) < MaxInFlight
    /\ StartDetectVPN(OptGet(data, "ipv4"))
    /\ UNCHANGED <<mounted, loading, data, vpnData, fPc, ip4Data, ip6Data, toasts, cycle>>
    /\ UNCHANGED <<vdVars, stVars>>

\* What the vpn-detect function may be answered by ipwho.is for one address.
DetectUpstreams ==
    {[kind |-> "fetch_rejects"],
     [kind |-> "json", data |-> Obj([security |-> Obj([is_vpn |-> JsTrue]),
                                     connection |-> Undef])]}

\* One detectVPN invocation settles, in any order: a 2xx answer is stored by
\* setVpnData, anything else raises the toast; finally setVpnLoading(false).
DetectVPNSettles ==
    /\ \E i \in 1..Len(vpnInFlight), up \in DetectUpstreams :
         LET ip == vpnInFlight[i]
             resp == Handler([method |-> "POST", body |-> "ip"], up)
         IN  /\ vpnInFlight' = SubSeq(vpnInFlight, 1, i - 1)
                               \o SubSeq(vpnInFlight, i + 1, Len(vpnInFlight))
             /\ IF resp.status # 200
                THEN /\ toasts' = toasts \cup {"VPN Detection Failed"}
                     /\ UNCHANGED vpnData
                ELSE /\ vpnData' = [forIp |-> ip, isVpn |-> resp.isVpn,
                                    vpnType |-> resp.vpnType,
                                    hosting |-> resp.hosting, org |-> resp.org]
                     /\ UNCHANGED toasts
    /\ vpnLoading' = FALSE
    /\ UNCHANGED <<mounted, loading, data, fPc, ip4Data, ip6Data, cycle>>
    /\ UNCHANGED <<vdVars, stVars>>

vars == <<vdVars, stVars, ixVars>>

InitClassify == VdIdle /\ StIdle /\ IxIdle
NextClassify == Serve \/ NextRequest
SpecClassify == InitClassify /\ [][NextClassify]_vars

VdParked == VdIdle /\ vdReq = [method |-> "OPTIONS", body |-> "none"]

InitSpeed == StIdle /\ VdParked /\ IxIdle
SpecSpeed == InitSpeed /\ [][NextSpeed]_vars

Init == IxIdle /\ VdParked /\ StIdle
Next ==
    \/ FetchIPData
    \/ Ip4Settles
    \/ Ip6Settles
    \/ LocationSettles
    \/ FallbackSettles
    \/ ClickVpnRefresh
    \/ DetectVPNSettles
Spec == Init /\ [][Next]_vars

----------------------------------------------------------------------------
(* Claims about the vpn-detect classifier (specification SpecClassify) *)

Classified == vdResp.status = 200 /\ vdResp.kind = "result"

Signal(layer, key) == OptGet(OptGet(vdUpstream.data, layer), key)

\* C1: for every accepted signal bundle, the returned vpnType differs from
\* 'None Detected' if and only if the returned isVpn is true.
C1_CategoryIffAnonymized ==
    Classified => ((vdResp.vpnType # "None Detected") <=> vdResp.isVpn)

\* C2: isVpn is true exactly when at least one of the five signals
\* (security proxy, vpn, tor, relay, connection proxy) is the boolean true,
\* and false when all five are false or absent.
C2_IsVpnIsOrOfFiveSignals ==
    Classified =>
        (vdResp.isVpn <=>
            \E sig \in {<<"security", "is_proxy">>, <<"security", "is_vpn">>,
                        <<"security", "is_tor">>, <<"security", "is_relay">>,
                        <<"connection", "is_proxy">>} :
                Signal(sig[1], sig[2]) = JsTrue)

\* C2 witness: only the connection-layer proxy signal is true and the
\* classifier answered isVpn = true.
C2_Witness ==
    /\ Classified
    /\ vdResp.isVpn
    /\ Signal("connection", "is_proxy") = JsTrue
    /\ \A k \in SecurityKeys : Signal("security", k) # JsTrue

\* The four security-layer flags are flags: true, false or absent.
SecurityFlagsBoolean ==
    \A k \in SecurityKeys : Signal("security", k) \in {Undef, JsTrue, JsFalse}

\* C3: for every combination of the four security-layer flags the category is
\* the highest-precedence true flag in the order Tor > Vpn > Proxy > Relay,
\* and None when none of the four is true.
C3_CategoryByPrecedence ==
    (Classified /\ SecurityFlagsBoolean) =>
        /\ (vdResp.vpnType = "Tor Network") <=> Signal("security", "is_tor") = JsTrue
        /\ (vdResp.vpnType = "VPN") <=>
              /\ Signal("security", "is_tor") # JsTrue
              /\ Signal("security", "is_vpn") = JsTrue
        /\ (vdResp.vpnType = "Proxy") <=>
              /\ Signal("security", "is_tor") # JsTrue
              /\ Signal("security", "is_vpn") # JsTrue
              /\ Signal("security", "is_proxy") = JsTrue
        /\ (vdResp.vpnType = "Relay") <=>
              /\ Signal("security", "is_tor") # JsTrue
              /\ Signal("security", "is_vpn") # JsTrue
              /\ Signal("security", "is_proxy") # JsTrue
              /\ Signal("security", "is_relay") = JsTrue
        /\ (vdResp.vpnType = "None Detected") <=>
              \A k \in SecurityKeys : Signal("security", k) # JsTrue

\* C3 witness: several flags are true at once (vpn, proxy and relay, not
\* tor) and the label returned is the highest of them.
C3_Witness ==
    /\ Classified
    /\ SecurityFlagsBoolean
    /\ Signal("security", "is_tor") = JsFalse
    /\ Signal("security", "is_vpn") = JsTrue
    /\ Signal("security", "is_proxy") = JsTrue
    /\ Signal("security", "is_relay") = JsTrue
    /\ vdResp.vpnType = "VPN"

----------------------------------------------------------------------------
(* Claims about SpeedTest (specification SpecSpeed) *)

MinusOne == Fixed(-100)

\* v >= 0 as JavaScript evaluates it: a finite number >= 0, or Infinity.
NonNegative(v) == (v.t = "fixed" /\ v.h >= 0) \/ v.t = "Infinity"

ProgressSteps ==
    <<"Measuring ping...", "Testing download speed...", "Testing upload speed...">>

\* C8: every run executes latency, download and upload strictly in that order,
\* each starting only after the previous one resolved; a phase whose request
\* fails yields -1 and the later phases still run; the returned sample has all
\* three fields set, each either a value >= 0 or -1.
C8_SequentialFailSoftSample ==
    /\ stPc = "ping" =>
          stProgress = SubSeq(ProgressSteps, 1, 1)
          /\ stPing = Unset /\ stDown = Unset /\ stUp = Unset
    /\ stPc \in {"download_fetch", "download_read"} =>
          stProgress = SubSeq(ProgressSteps, 1, 2)
          /\ stPing # Unset /\ stDown = Unset /\ stUp = Unset
    /\ stPc = "upload" =>
          stProgress = ProgressSteps
          /\ stPing # Unset /\ stDown # Unset /\ stUp = Unset
    /\ pingProbe.outcome = "rejects" => stPing = MinusOne
    /\ dlOutcome \in {"rejects", "no_body", "read_error"} => stDown = MinusOne
    /\ stPc = "done" =>
          /\ stProgress = ProgressSteps
          /\ stResult = [downloadSpeed |-> stDown, uploadSpeed |-> stUp, ping |-> stPing]
          /\ \A v \in {stResult.ping, stResult.downloadSpeed, stResult.uploadSpeed} :
                NonNegative(v) \/ v = MinusOne

\* C9: measureDownloadSpeed returns -1 whenever no data was received or the
\* request failed outright, and a value >= 0 only when at least one byte was
\* received.
C9_DownloadSentinelWhenNoData ==
    stDown # Unset =>
        /\ (dlBytes = 0 \/ dlOutcome # "computed") => stDown = MinusOne
        /\ NonNegative(stDown) => dlBytes > 0

\* C10: measurePing returns exactly -1 for every failed probe (a network error
\* or a non-success HTTP status), never 0 or NaN, and a successful probe with a
\* 0 ms round trip returns 0.
C10_PingSentinelOnFailure ==
    stPing # Unset =>
        /\ pingProbe.outcome \in {"rejects", "status_500"} => stPing = MinusOne
        /\ (pingProbe.outcome = "status_204" /\ pingProbe.dt = 0) => stPing = Fixed(0)

----------------------------------------------------------------------------
(* Claims about the Index page (specification Spec) *)

\* A fetchIPData call has run to its end.
CycleOver == mounted /\ fPc = "idle"

Unavailable == Str("Unavailable")

\* An address lookup succeeded: it was answered 2xx with a JSON object that
\* carries an ip; it failed when it settled any other way.
IpOk(r) == r.net = "ok" /\ r.status = 200 /\ Truthy(OptGet(r.body, "ip"))
IpFailed(r) == r.net # "none" /\ ~IpOk(r)

\* A geolocation request failed: network error, non-success status, or a
\* body that is not JSON.
GeoFailed(r) ==
    \/ r.net = "rejects"
    \/ r.net = "ok" /\ (r.status # 200 \/ r.body = InvalidJson)
GeoOk(r) == r.net = "ok" /\ ~GeoFailed(r)

\* C4: when the IPv4 lookup fails the IPv6 request is still issued, and in a
\* cycle where the IPv4 lookup failed and the IPv6 lookup succeeded the record
\* has ipv4 = 'Unavailable', ipv6 = the resolved address, and detectVPN is not
\* started.
C4_V4FailureIsolated ==
    /\ IpFailed(cycle.ip4) => cycle.ip6Requests = 1
    /\ (CycleOver /\ IpFailed(cycle.ip4) /\ IpOk(cycle.ip6)) =>
          /\ OptGet(data, "ipv4") = Unavailable
          /\ OptGet(data, "ipv6") = cycle.ip6.body.f.ip
          /\ cycle.detectCalls = {}

\* C5: in every cycle the secondary geolocation provider is requested exactly
\* once if the primary call failed (network error, non-success status or
\* malformed payload) and not at all if it succeeded; never more than two
\* geolocation requests per cycle.
C5_FallbackExactlyOnceOnFailure ==
    /\ GeoFailed(cycle.location) => cycle.fallbackRequests = 1
    /\ GeoOk(cycle.location) => cycle.fallbackRequests = 0
    /\ cycle.locationRequests + cycle.fallbackRequests <= 2

\* C6: in a cycle where both address lookups succeed and both the primary and
\* the fallback geolocation requests fail, the record produced has every
\* location field at its sentinel (no coordinates) and ipv4 / ipv6 hold the
\* resolved addresses.
C6_LocationSentinelsKeepAddresses ==
    (/\ CycleOver
     /\ IpOk(cycle.ip4) /\ IpOk(cycle.ip6)
     /\ GeoFailed(cycle.location) /\ GeoFailed(cycle.fallback)) =>
        /\ OptGet(data, "ipv4") = cycle.ip4.body.f.ip
        /\ OptGet(data, "ipv6") = cycle.ip6.body.f.ip
        /\ \A k \in {"country", "region", "city", "isp"} : OptGet(data, k) = Dash
        /\ \A k \in {"lat", "lon"} : OptGet(data, k) = Undef

\* C7: detectVPN is triggered after identity resolution only when a usable
\* IPv4 address was obtained, and is never invoked with 'Unavailable'.
C7_NoDetectionOnSentinel ==
    /\ cycle.detectCalls # {} => IpOk(cycle.ip4)
    /\ \A i \in 1..Len(vpnInFlight) : vpnInFlight[i] # Unavailable

\* C11: a failure notice is raised only when the entire identity resolution
\* fails (no address lookup and no location lookup succeeded); a cycle in
\* which only some sub-calls fail raises none, and a classification or
\* bandwidth failure raises no error notice.
C11_NoticeOnlyOnTotalFailure ==
    /\ "Error" \in toasts =>
          /\ ~IpOk(cycle.ip4) /\ ~IpOk(cycle.ip6)
          /\ ~GeoOk(cycle.location) /\ ~GeoOk(cycle.fallback)
    /\ "VPN Detection Failed" \notin toasts
    /\ "Speed Test Failed" \notin speedToasts

----------------------------------------------------------------------------
(* Claims about the download ceiling (specification SpecSpeed) *)

\* The 5000 ms ceiling in clock ticks of 0.1 ms.
CeilingTicks == TEST_DURATION * 10

\* C12: when the elapsed time since request start exceeds the 5000 ms ceiling
\* before the stream has ended, the reader is cancelled, no further chunk is
\* read, and the speed is computed from the bytes received and the elapsed
\* time up to the cancellation; the stream is not cancelled when it ends
\* before the ceiling.  The elapsed time is the one observed when a read
\* settles: the loop goes on reading only while that is within the ceiling.
C12_CeilingCancelsDownload ==
    /\ stPc = "download_read" => ~dlCancelled
    /\ (stPc = "download_read" /\ dlReads > 0) => dlNow <= CeilingTicks
    /\ (dlOutcome = "computed" /\ dlNow > CeilingTicks) => dlCancelled
    /\ (dlOutcome = "computed" /\ dlNow <= CeilingTicks) => ~dlCancelled
    /\ dlCancelled =>
          /\ stPc \in {"upload", "done"}
          /\ dlOutcome = "computed"
          /\ stDown = SpeedMbps(dlBytes, dlNow)

\* C12 witness: two 64 KiB chunks, the second settling 5.2 s after the
\* request start: the reader is cancelled and the speed is 131072 bytes over
\* 5.2 s (0.19 Mbps; over 5.0 s it would be 0.20).
C12_Witness ==
    /\ dlCancelled
    /\ dlNow = 52000
    /\ dlBytes = 131072
    /\ stDown = Fixed(19)
    /\ stPc = "upload"

----------------------------------------------------------------------------
(* Claims about cross-cycle state and field reconciliation (specification Spec) *)

\* C13: after any sequence of refresh cycles, manual classification requests
\* and classification responses, the stored vpnData is either absent or was
\* computed for the ipv4 of the currently stored record.
C13_VpnDataMatchesRecord ==
    vpnData # Null => vpnData.forIp = OptGet(data, "ipv4")

\* The provider answer the current cycle built its record from.
ActiveLocation ==
    IF cycle.fallback.net = "ok" THEN cycle.fallback.body ELSE cycle.location.body

\* The candidate keys of each normalized field, in priority order.
CandidateKeys ==
    [country |-> <<<<"country_name">>, <<"country">>>>,
     region |-> <<<<"region">>, <<"region_name">>>>,
     city |-> <<<<"city">>>>,
     isp |-> <<<<"org">>, <<"connection", "isp">>, <<"isp">>>>,
     lat |-> <<<<"latitude">>, <<"lat">>>>,
     lon |-> <<<<"longitude">>, <<"lon">>>>]

\* The sentinel of each field; the coordinates have none but being absent.
FieldSentinel ==
    [country |-> Dash, region |-> Dash, city |-> Dash, isp |-> Dash,
     lat |-> Undef, lon |-> Undef]

ValueAt(loc, path) ==
    IF Len(path) = 1 THEN OptGet(loc, path[1])
    ELSE OptGet(OptGet(loc, path[1]), path[2])

PresentNonNull(v) == v.t \notin {"undefined", "null"}

\* The value of the first candidate that is present and non-null, else the
\* sentinel.
FirstPresent(loc, field) ==
    LET keys == CandidateKeys[field]
        hits == {i \in 1..Len(keys) : PresentNonNull(ValueAt(loc, keys[i]))}
    IN  IF hits = {} THEN FieldSentinel[field]
        ELSE ValueAt(loc, keys[CHOOSE i \in hits : \A j \in hits : i <= j])

\* C14: for each normalized field the record holds the value of the first
\* candidate key, in the field's priority order, that is present and non-null
\* in the active provider response (an empty string or a coordinate of 0 is
\* taken as the value), and the sentinel only when every candidate is absent
\* or null.
C14_FirstPresentCandidate ==
    (CycleOver /\ cycle.setData) =>
        \A field \in DOMAIN CandidateKeys :
            OptGet(data, field) = FirstPresent(ActiveLocation, field)

====
